---- MODULE Spec2Model ----
(***************************************************************************)
(* Model of concurrent_load_test_improved.py: make_conn (connection with   *)
(* retries), worker_task (one transfer transaction per request),           *)
(* run_experiment (thread pool dispatch, collection, detail and summary    *)
(* stores) and the loop of main over the runs.                             *)
(*                                                                         *)
(* Strings are modelled as sequences of tokens; the substring tests of     *)
(* run_experiment ('COMPLETADA' in s, 'ABORT' in s, 'CONN_ERR' in s) are   *)
(* modelled by Contains, which looks for the keyword inside every token.   *)
(***************************************************************************)
EXTENDS Integers, Sequences, FiniteSets, TLC

\* ---------------------------------------------------------------- bounds
MaxTotal == 2        \* largest --total (total_ops) explored
MaxConcurrency == 2  \* largest --concurrency (max_workers) explored
MaxRetries == 1      \* largest max_retries explored with several requests
MaxFaults == 2       \* failures the database injects in a run of several requests
MaxRuns == 2         \* largest --runs explored
MaxPoolLen == 3      \* longest --accounts list explored
MaxAccountId == 2    \* largest account id of an --accounts list explored

\* ------------------------------------------------------- program constants
DefaultMaxRetries == 3   \* make_conn(..., max_retries=3, ...)

Modes == {"2pl", "ts", "opt", "simple"}

\* -------------------------------------------------------------- strings
None == <<>>

\* The keywords of run_experiment's classification that occur inside a token.
KeywordsIn(tok) ==
    CASE tok = "COMPLETADA" -> {"COMPLETADA"}
      [] tok = "ABORTADA"   -> {"ABORT"}
      [] tok = "ABORT: "    -> {"ABORT"}
      [] tok = "CONN_ERR: " -> {"CONN_ERR"}
      [] OTHER              -> {}

\* Python's `kw in s` for a keyword kw and a string s.
Contains(s, kw) == \E k \in DOMAIN s : kw \in KeywordsIn(s[k])

\* str(e).replace('\n', ' | ')
ReplaceNewlines(s) == [k \in DOMAIN s |-> IF s[k] = "\n" THEN " | " ELSE s[k]]

\* ------------------------------------------------------------ exceptions
NoExc == [type |-> "none", text |-> None]

\* What psycopg2.connect can raise: a transient OperationalError, or another
\* error of the driver (bad parameters).
ConnErrors ==
    { [type |-> "OperationalError", text |-> <<"could not connect", "\n", "refused">>],
      [type |-> "DatabaseError",    text |-> <<"invalid dsn">>] }

\* What SET LOCAL, BEGIN, commit, rollback and the two close calls can raise: the
\* connection was lost, or the driver or the server refuses the call.
SessionErrors ==
    { [type |-> "OperationalError", text |-> <<"server closed the connection">>],
      [type |-> "DatabaseError",    text |-> <<"current transaction is aborted">>] }

\* What a statement of the transfer can raise: the statement timeout, or a
\* constraint violation whose detail quotes the row of banco.transferencia
\* with its estado.
TransferErrors ==
    { [type |-> "OperationalError", text |-> <<"statement timeout">>],
      [type |-> "DatabaseError",
       text |-> <<"check constraint", "\n", "Failing row contains", "COMPLETADA">>] }

\* `except cls`: does a handler for class cls catch exception e?
Catches(cls, e) ==
    CASE cls = "Exception"        -> e.type \in {"OperationalError", "DatabaseError",
                                                 "OSError", "IndexError"}
      [] cls = "OperationalError" -> e.type = "OperationalError"
      [] cls = "OSError"          -> e.type = "OSError"
      [] OTHER                    -> FALSE

\* A handler that names the driver's transient error instead of Exception.
OuterHandlerClassNarrow == "OperationalError"

\* The classes named by the three handlers of the program.
RetryHandlerClass == "OperationalError"   \* make_conn: except OperationalError
InnerHandlerClass == "Exception"          \* worker_task: inner except Exception
OuterHandlerClass == "Exception"          \* worker_task: outer except Exception

Ok == [type |-> "ok", text |-> None]

\* ------------------------------------------------------------ worker_task
\* The rows cur.fetchone() can return for the transfer functions: the status
\* reported by the stored procedure, or no row.
NoRow == None
OpRows == { <<"COMPLETADA">>, <<"ABORTADA">>, NoRow }

\* The state of one worker_task invocation (one request). conn_calls ...
\* ticks record what the invocation has done so far.
NewTask ==
    [ pc         |-> "new",      \* position in worker_task
      from_id    |-> None,       \* the arguments from_id and to_id
      to_id      |-> None,
      attempt    |-> 0,          \* make_conn's attempt
      conn       |-> "none",     \* the session: none, open, closed
      stmt       |-> 0,          \* statements of the transfer already executed
      e          |-> NoExc,      \* exception being handled or propagating
      status     |-> None,
      err_text   |-> None,
      conn_calls |-> 0,          \* calls of psycopg2.connect
      stmt_calls |-> 0,          \* calls of cur.execute
      commits    |-> 0,          \* calls of conn.commit
      committed  |-> FALSE,      \* conn.commit returned
      rollbacks  |-> 0,          \* calls of conn.rollback
      closes     |-> 0,          \* calls of conn.close
      first_fail |-> "none",     \* first step that raised on the session
      begun      |-> FALSE,      \* BEGIN returned
      steps      |-> <<>>,       \* the calls made on the database, in order
      ticks      |-> 0 ]         \* database calls made (the latency clock)

\* An outer handler that lets the exception go on.
OuterExceptReraise(t, e) == [t EXCEPT !.e = e, !.pc = "raise"]

\* except Exception as e (outer): status = 'CONN_ERR: ' + err_text. An exception
\* the handler does not catch leaves worker_task.
OuterExcept(t, e) ==
    IF Catches(OuterHandlerClass, e)
    THEN [t EXCEPT !.err_text = ReplaceNewlines(e.text),
                   !.status = <<"CONN_ERR: ">> \o ReplaceNewlines(e.text),
                   !.e = NoExc,
                   !.pc = "return"]
    ELSE [t EXCEPT !.e = e, !.pc = "raise"]

\* An exception raised inside the inner try: the inner handler (rollback) if it
\* catches it, else the finally clause with the exception pending.
InnerExcept(t, e) ==
    IF Catches(InnerHandlerClass, e)
    THEN [t EXCEPT !.e = e, !.pc = "rollback"]
    ELSE [t EXCEPT !.e = e, !.pc = "cur_close"]

\* A retry test that is off by one.
RetriesExhaustedOffByOne(attempt, n) == attempt >= n

\* if attempt > max_retries: raise
RetriesExhausted(attempt, n) == attempt > n

\* One iteration of make_conn's loop (psycopg2.connect returns or raises o),
\* with conn.cursor() on success.
MakeConn(t, o, n) ==
    LET t1 == [t EXCEPT !.conn_calls = @ + 1, !.ticks = @ + 1,
                        !.steps = Append(@, "connect")] IN
    IF o = Ok
    THEN [t1 EXCEPT !.conn = "open", !.pc = "timeout"]
    ELSE IF Catches(RetryHandlerClass, o)
         THEN LET t2 == [t1 EXCEPT !.attempt = @ + 1] IN
              IF RetriesExhausted(t2.attempt, n)
              THEN OuterExcept(t2, o)
              ELSE t2          \* time.sleep(backoff * attempt), next attempt
         ELSE OuterExcept(t1, o)

Failed(t, step) ==
    IF t.first_fail = "none" THEN [t EXCEPT !.first_fail = step] ELSE t

\* cur.execute("SET LOCAL statement_timeout = %s;")
SetTimeout(t, o) ==
    LET t1 == [t EXCEPT !.stmt_calls = @ + 1, !.ticks = @ + 1,
                        !.steps = Append(@, "timeout")] IN
    IF o = Ok THEN [t1 EXCEPT !.pc = "begin"]
    ELSE OuterExcept(Failed(t1, "timeout"), o)

\* A BEGIN moved inside the inner try: its failure is rolled back.
BeginInsideTry(t, o) ==
    LET t1 == [t EXCEPT !.stmt_calls = @ + 1, !.ticks = @ + 1,
                        !.steps = Append(@, "begin")] IN
    IF o = Ok THEN [t1 EXCEPT !.begun = TRUE, !.pc = "op"]
    ELSE InnerExcept(Failed(t1, "begin"), o)

\* cur.execute("BEGIN TRANSACTION ISOLATION LEVEL ...")
Begin(t, o) ==
    LET t1 == [t EXCEPT !.stmt_calls = @ + 1, !.ticks = @ + 1,
                        !.steps = Append(@, "begin")] IN
    IF o = Ok THEN [t1 EXCEPT !.begun = TRUE, !.pc = "op"]
    ELSE OuterExcept(Failed(t1, "begin"), o)

\* status_row[0] if status_row else 'UNKNOWN'
StatusOf(row) == IF row # NoRow THEN <<row[1]>> ELSE <<"UNKNOWN">>

\* The statements of the simple mode: two UPDATEs and an INSERT.
SimpleStatements == 3

\* The transfer: one SELECT of the transfer function and fetchone for 2pl, ts
\* and opt; one of the three statements of the simple mode otherwise.
Operate(t, o, row, m) ==
    LET t1 == [t EXCEPT !.stmt_calls = @ + 1, !.ticks = @ + 1,
                        !.steps = Append(@, "op")] IN
    IF o # Ok THEN InnerExcept(Failed(t1, "op"), o)
    ELSE IF m \in {"2pl", "ts", "opt"}
         THEN [t1 EXCEPT !.status = StatusOf(row), !.pc = "commit"]
         ELSE IF t.stmt + 1 < SimpleStatements
              THEN [t1 EXCEPT !.stmt = @ + 1]
              ELSE [t1 EXCEPT !.stmt = @ + 1, !.status = <<"COMPLETADA">>,
                              !.pc = "commit"]

\* conn.commit()
Commit(t, o) ==
    LET t1 == [t EXCEPT !.commits = @ + 1, !.ticks = @ + 1,
                        !.steps = Append(@, "commit")] IN
    IF o = Ok THEN [t1 EXCEPT !.committed = TRUE, !.pc = "cur_close"]
    ELSE InnerExcept(Failed(t1, "commit"), o)

\* except Exception as e: conn.rollback(); status = 'ABORT: ' + err_text. A
\* failing rollback leaves its exception pending over the finally clause.
Rollback(t, o) ==
    LET t1 == [t EXCEPT !.rollbacks = @ + 1, !.ticks = @ + 1,
                        !.steps = Append(@, "rollback")] IN
    IF o = Ok
    THEN [t1 EXCEPT !.err_text = ReplaceNewlines(t.e.text),
                    !.status = <<"ABORT: ">> \o ReplaceNewlines(t.e.text),
                    !.e = NoExc,
                    !.pc = "cur_close"]
    ELSE [t1 EXCEPT !.e = o, !.pc = "cur_close"]

\* finally: cur.close(); an exception here skips conn.close().
CurClose(t, o) ==
    LET t1 == [t EXCEPT !.ticks = @ + 1, !.steps = Append(@, "cur_close")] IN
    IF o = Ok THEN [t1 EXCEPT !.pc = "conn_close"]
    ELSE OuterExcept(t1, o)

\* finally: conn.close(); then a pending exception goes on to the outer handler.
ConnClose(t, o) ==
    LET t1 == [t EXCEPT !.closes = @ + 1, !.ticks = @ + 1,
                        !.steps = Append(@, "conn_close")] IN
    IF o # Ok THEN OuterExcept(t1, o)
    ELSE LET t2 == [t1 EXCEPT !.conn = "closed"] IN
         IF t.e # NoExc THEN OuterExcept(t2, t.e)
         ELSE [t2 EXCEPT !.pc = "return"]

\* The record worker_task returns (req identifies the request that produced it).
ResultOf(r, t) ==
    [req |-> r, status |-> t.status, latency_s |-> t.ticks, error |-> t.err_text]

\* --------------------------------------------------------- run_experiment
RECURSIVE SumSeq(_)
SumSeq(s) == IF s = <<>> THEN 0 ELSE Head(s) + SumSeq(Tail(s))

\* round(num / den, digits) in units of 10^-digits, ties to even.
RoundDiv(num, den) ==
    LET q == num \div den
        r == num % den
    IN  IF 2 * r < den THEN q
        ELSE IF 2 * r > den THEN q + 1
        ELSE IF q % 2 = 0 THEN q ELSE q + 1

\* sorted(xs)
Sorted(xs) ==
    CHOOSE ys \in [DOMAIN xs -> {xs[k] : k \in DOMAIN xs}] :
        /\ \A a, b \in DOMAIN ys : a <= b => ys[a] <= ys[b]
        /\ \A v \in {xs[k] : k \in DOMAIN xs} :
              Cardinality({k \in DOMAIN xs : xs[k] = v})
                = Cardinality({k \in DOMAIN ys : ys[k] = v})

\* round(x, 4): latencies are held in units of 0.0001 s.
Scale4 == 10000

\* round(x * 100.0, 2): the abort rate is held in units of 0.01 percent.
RateScale == 10000

\* `if latencies`: the guard of the mean and of the median
LatencyGuard(ls) == ls # <<>>

\* round(statistics.mean(latencies), 4) if latencies else 0.0
MeanLatency(ls) ==
    IF LatencyGuard(ls) /\ ls # <<>>
    THEN RoundDiv(SumSeq(ls) * Scale4, Len(ls)) ELSE 0

\* round(statistics.median(latencies), 4) if latencies else 0.0
MedianLatency(ls) ==
    IF ~(LatencyGuard(ls) /\ ls # <<>>) THEN 0
    ELSE LET ys == Sorted(ls)
             n  == Len(ys)
         IN  IF n % 2 = 1 THEN ys[(n + 1) \div 2] * Scale4
             ELSE RoundDiv((ys[n \div 2] + ys[n \div 2 + 1]) * Scale4, 2)

\* s and 'COMPLETADA' in s
IsCompleted(s) == s # None /\ Contains(s, "COMPLETADA")

\* A classification that forgets the connection errors.
IsAbortedNoConnErr(s) == s # None /\ Contains(s, "ABORT")

\* s and ('ABORT' in s or 'CONN_ERR' in s)
IsAborted(s) == s # None /\ (Contains(s, "ABORT") \/ Contains(s, "CONN_ERR"))

\* An abort rate computed without its guard.
RateGuardMissing(total) == TRUE

\* `if total`: the guard of the abort rate
RateGuard(total) == total # 0

\* round(aborted/total*100.0, 2) if total else 0.0
AbortRate(aborted, total) ==
    IF RateGuard(total) /\ total # 0 THEN RoundDiv(aborted * RateScale, total) ELSE 0

\* The summary metrics raise when a guard lets through a division by zero
\* (ZeroDivisionError) or the statistics of an empty list (StatisticsError).
MetricsRaise(rs) ==
    \/ RateGuard(Len(rs)) /\ Len(rs) = 0
    \/ LatencyGuard([k \in DOMAIN rs |-> rs[k].latency_s]) /\ rs = <<>>

\* The summary of a result list.
SummaryOf(rs) ==
    LET latencies == [k \in DOMAIN rs |-> rs[k].latency_s]
        statuses  == [k \in DOMAIN rs |-> rs[k].status]
        completed == Cardinality({k \in DOMAIN statuses : IsCompleted(statuses[k])})
        aborted   == Cardinality({k \in DOMAIN statuses : IsAborted(statuses[k])})
        total     == Len(rs)
    IN  [ total_ops      |-> total,
          completed      |-> completed,
          aborted        |-> aborted,
          abort_rate_pct |-> AbortRate(aborted, total),
          avg_latency_s  |-> MeanLatency(latencies),
          p50_latency_s  |-> MedianLatency(latencies) ]

NoSummary == [total_ops |-> -1]

VARIABLES
    account_pool,  \* --accounts, parsed: a list of account ids
    total_ops,     \* --total
    concurrency,   \* --concurrency: max_workers of the pool
    mode,          \* --mode
    max_retries,   \* make_conn's max_retries
    runs,          \* --runs
    run,           \* main's loop variable: the run id of the current run
    pc,            \* position of main and run_experiment: main (before the first
                   \* run), pool, raising, detail, metrics, summary, done
                   \* (returned to main), raised (left by an exception)
    i,             \* requests submitted so far (the for loop's index)
    queue,         \* the pool's work queue: submitted requests not yet started
    task,          \* task[r]: the worker_task invocation of request r
    pending,       \* futures as_completed has not yielded yet
    results,       \* results
    out_detail,    \* the detail store: a sequence of "header" and "row"
    out_summary,   \* the summary store
    summary,       \* the summary run_experiment returns
    printed,       \* the failure messages printed since the run was announced:
                   \* "detalle", "resumen"
    faults_left    \* failures the database may still inject

vars == << account_pool, total_ops, concurrency, mode, max_retries, runs, run, pc, i, queue, task,
           pending, results, out_detail, out_summary, summary, printed, faults_left >>

config == << account_pool, total_ops, concurrency, mode, max_retries, runs >>

stores == << out_detail, out_summary, printed >>

Requests == 1 .. total_ops

RunningPcs == {"connect", "timeout", "begin", "op", "commit", "rollback",
               "cur_close", "conn_close", "return", "raise"}

\* Requests whose worker_task has started and not yet returned.
Running == {r \in Requests : task[r].pc \in RunningPcs}

\* Requests submitted and not yet completed.
Outstanding == {r \in Requests : task[r].pc \in {"queued"} \cup RunningPcs}

\* A store is empty or holds the rows of earlier runs.
Stores == { <<>>, <<"header", "row">> }

\* main before its loop: no run has started.
InitRun ==
    /\ pc = "main"
    /\ run = 0
    /\ i = 0
    /\ queue = <<>>
    /\ task = [r \in Requests |-> NewTask]
    /\ pending = {}
    /\ results = <<>>
    /\ summary = NoSummary
    /\ printed = {}

\* The --accounts list of the specifications that do not vary it.
TwoAccounts == <<1, 2>>

\* The --accounts lists explored: every list of 1 to MaxPoolLen ids (with its
\* duplicates), and the empty list.
AccountPools ==
    UNION { [1 .. n -> 1 .. MaxAccountId] : n \in 0 .. MaxPoolLen }

Init ==
    /\ account_pool = TwoAccounts
    /\ total_ops \in 0 .. MaxTotal
    /\ concurrency \in 1 .. MaxConcurrency
    /\ mode \in Modes
    /\ max_retries \in 0 .. MaxRetries
    /\ runs = 1
    /\ faults_left = MaxFaults
    /\ out_detail = <<>>
    /\ out_summary = <<>>
    /\ InitRun

\* A run of at most one request, with max_retries up to the default, every
\* failure the database can inject on the way of one worker_task (at most
\* max_retries + 1 failed connects, or max_retries failed connects and a failure
\* of the transfer or the commit, of the rollback and of a close), and stores
\* that are empty or not.
InitWorker ==
    /\ account_pool = TwoAccounts
    /\ total_ops \in {0, 1}
    /\ concurrency = 1
    /\ mode \in Modes
    /\ max_retries \in 0 .. DefaultMaxRetries
    /\ runs = 1
    /\ faults_left = DefaultMaxRetries + 4
    /\ out_detail \in Stores
    /\ out_summary \in Stores
    /\ InitRun

\* The stores an experiment may find: also one that holds a row and no header.
DriverStores == Stores \cup { <<"row">> }

\* An experiment of up to MaxRuns runs of at most one request each, against
\* stores that are empty or not; the database injects at most one failure.
InitDriver ==
    /\ account_pool = TwoAccounts
    /\ total_ops \in {0, 1}
    /\ concurrency = 1
    /\ mode \in {"2pl", "simple"}
    /\ max_retries = 0
    /\ runs \in 0 .. MaxRuns
    /\ faults_left = 1
    /\ out_detail \in DriverStores
    /\ out_summary \in DriverStores
    /\ InitRun

\* Runs of up to MaxTotal requests dispatched one at a time from every
\* --accounts list; the database injects at most one failure.
InitDispatch ==
    /\ account_pool \in AccountPools
    /\ total_ops \in 0 .. MaxTotal
    /\ concurrency = 1
    /\ mode = "simple"
    /\ max_retries = 0
    /\ runs = 1
    /\ faults_left = 1
    /\ out_detail = <<>>
    /\ out_summary = <<>>
    /\ InitRun

\* An experiment of up to MaxRuns runs and up to MaxTotal requests in all, on a
\* pool of up to MaxConcurrency threads; the database injects at most one
\* failure.
InitLive ==
    /\ account_pool = TwoAccounts
    /\ total_ops \in 0 .. MaxTotal
    /\ concurrency \in 1 .. MaxConcurrency
    /\ mode = "2pl"
    /\ max_retries \in 0 .. MaxRetries
    /\ runs \in 0 .. MaxRuns
    /\ runs * total_ops <= MaxTotal
    /\ faults_left = 1
    /\ out_detail = <<>>
    /\ out_summary = <<>>
    /\ InitRun

\* for run in range(1, args.runs + 1): main calls run_experiment with the next
\* run id; results = [] and a new pool, whose futures are new.
StartRun ==
    /\ pc \in {"main", "done"}
    /\ run < runs
    /\ run' = run + 1
    /\ pc' = "pool"
    /\ i' = 0
    /\ queue' = <<>>
    /\ task' = [r \in Requests |-> NewTask]
    /\ pending' = {}
    /\ results' = <<>>
    /\ summary' = NoSummary
    /\ printed' = {}
    /\ UNCHANGED << config, out_detail, out_summary, faults_left >>

\* A submit that waits for a free slot of the pool.
CanSubmitBlocking == Cardinality(Outstanding) < concurrency

\* ex.submit returns at once whatever the pool is doing: its work queue is
\* unbounded.
CanSubmit == TRUE

\* random.choice(xs): the values it can return; on an empty list it raises
\* IndexError.
Choice(xs) == {xs[k] : k \in DOMAIN xs}

\* A candidate list that keeps the source account.
OthersUnfiltered(pool, from_id) == pool

\* [a for a in account_pool if a != from_id]
Others(pool, from_id) == SelectSeq(pool, LAMBDA a : a # from_id)

\* The requests one iteration of the dispatch loop can generate.
GeneratedRequests(pool) ==
    { q \in [from_id : Choice(pool), to_id : Choice(pool)] :
         q.to_id \in Choice(Others(pool, q.from_id)) }

\* The iteration raises IndexError: random.choice of an empty list, the pool or
\* the candidates for to_id.
DispatchRaises(pool) ==
    \/ pool = <<>>
    \/ \E f \in Choice(pool) : Others(pool, f) = <<>>

\* One iteration of the dispatch loop: from_id and to_id are drawn and
\* ex.submit(worker_task, ...) queues the request; submit does not wait. An
\* IndexError of random.choice leaves the loop and the with block.
Submit ==
    /\ pc = "pool"
    /\ i < total_ops
    /\ CanSubmit
    /\ \/ /\ \E q \in GeneratedRequests(account_pool) :
                task' = [task EXCEPT ![i + 1] =
                            [@ EXCEPT !.pc = "queued", !.from_id = q.from_id,
                                      !.to_id = q.to_id]]
          /\ i' = i + 1
          /\ queue' = Append(queue, i + 1)
          /\ pending' = pending \cup {i + 1}
          /\ pc' = pc
       \/ /\ DispatchRaises(account_pool)
          /\ pc' = "raising"
          /\ UNCHANGED << i, queue, task, pending >>
    /\ UNCHANGED << config, run, stores, results, summary, faults_left >>

\* A pool that keeps one thread less than max_workers.
CanStartTooFew == Cardinality(Running) < concurrency - 1

\* A pool that starts one thread too many.
CanStartOffByOne == Cardinality(Running) <= concurrency

\* A pool thread takes the next work item: max_workers bounds the threads.
CanStart == Cardinality(Running) < concurrency

Start ==
    /\ queue # <<>>
    /\ CanStart
    /\ task' = [task EXCEPT ![Head(queue)].pc = "connect"]
    /\ queue' = Tail(queue)
    /\ UNCHANGED << config, run, stores, pc, i, pending, results, summary, faults_left >>

\* What a database call can do: return, or raise one of errs while the database
\* may still inject a failure.
Outcomes(errs) == {Ok} \cup (IF faults_left > 0 THEN errs ELSE {})

StepTask(r, t, o) ==
    /\ task' = [task EXCEPT ![r] = t]
    /\ faults_left' = IF o = Ok THEN faults_left ELSE faults_left - 1
    /\ UNCHANGED << config, run, stores, pc, i, queue, pending, results, summary >>

Connect(r) ==
    /\ task[r].pc = "connect"
    /\ \E o \in Outcomes(ConnErrors) : StepTask(r, MakeConn(task[r], o, max_retries), o)

Timeout(r) ==
    /\ task[r].pc = "timeout"
    /\ \E o \in Outcomes(SessionErrors) : StepTask(r, SetTimeout(task[r], o), o)

BeginTx(r) ==
    /\ task[r].pc = "begin"
    /\ \E o \in Outcomes(SessionErrors) : StepTask(r, Begin(task[r], o), o)

Transfer(r) ==
    /\ task[r].pc = "op"
    /\ \E o \in Outcomes(TransferErrors) :
          \E row \in IF o = Ok /\ mode # "simple" THEN OpRows ELSE {NoRow} :
             StepTask(r, Operate(task[r], o, row, mode), o)

CommitTx(r) ==
    /\ task[r].pc = "commit"
    /\ \E o \in Outcomes(SessionErrors) : StepTask(r, Commit(task[r], o), o)

RollbackTx(r) ==
    /\ task[r].pc = "rollback"
    /\ \E o \in Outcomes(SessionErrors) : StepTask(r, Rollback(task[r], o), o)

CloseCursor(r) ==
    /\ task[r].pc = "cur_close"
    /\ \E o \in Outcomes(SessionErrors) : StepTask(r, CurClose(task[r], o), o)

CloseConn(r) ==
    /\ task[r].pc = "conn_close"
    /\ \E o \in Outcomes(SessionErrors) : StepTask(r, ConnClose(task[r], o), o)

\* worker_task returns its record (or raises): the future is finished.
Return(r) ==
    /\ task[r].pc \in {"return", "raise"}
    /\ StepTask(r, [task[r] EXCEPT !.pc = IF @ = "return" THEN "done" ELSE "failed"], Ok)

\* for f in as_completed(futures): results.append(f.result())
Collect(r) ==
    /\ pc = "pool"
    /\ i = total_ops
    /\ r \in pending
    /\ task[r].pc \in {"done", "failed"}
    /\ pending' = pending \ {r}
    /\ IF task[r].pc = "done"
       THEN /\ results' = Append(results, ResultOf(r, task[r]))
            /\ pc' = pc
       ELSE /\ results' = results        \* f.result() raises out of the loop
            /\ pc' = "raising"
    /\ UNCHANGED << config, run, stores, i, queue, task, summary, faults_left >>

\* A collection loop that does not wait for the futures.
AllCollectedNoWait == TRUE

\* The loop over as_completed(futures) ends when every future was yielded.
AllCollected == pending = {}

\* End of the with block: shutdown(wait=True) returns when the queue is empty
\* and no worker is busy; an exception of the loop then leaves run_experiment.
Shutdown ==
    /\ \/ pc = "pool" /\ i = total_ops /\ AllCollected
       \/ pc = "raising"
    /\ queue = <<>>
    /\ Running = {}
    /\ pc' = IF pc = "pool" THEN "detail" ELSE "raised"
    /\ UNCHANGED << config, run, stores, i, queue, task, pending, results, summary,
                    faults_left >>

\* What open and the csv writer raise when the store cannot be opened or
\* written, and what results[0] raises on an empty list.
StoreError == [type |-> "OSError", text |-> <<"No space left on device">>]
IndexError == [type |-> "IndexError", text |-> <<"list index out of range">>]

\* A handler that names the error of the file system instead of Exception.
PersistHandlerClassNarrow == "OSError"

\* run_experiment: except Exception around each of the two writes
PersistHandlerClass == "Exception"

\* An append that writes the header every time.
WritesHeaderAlways(store, rows) == <<"header">> \o [k \in 1 .. rows |-> "row"]

\* The write calls of one append: writeheader() if tell() == 0, then one
\* writerow per row.
Writes(store, rows) ==
    (IF store = <<>> THEN <<"header">> ELSE <<>>) \o [k \in 1 .. rows |-> "row"]

\* The rows one successful write appends to a store.
Appended(store, rows) == store \o Writes(store, rows)

\* What one append can do to a store: open raises; or fieldnames cannot be taken
\* from the first row (has_first is false); or the first w write calls succeed
\* and the next one raises; or every write call succeeds.
WriteOutcomes(store, rows, has_first) ==
    { [store |-> store, exc |-> StoreError] }
    \cup (IF ~has_first
          THEN { [store |-> store, exc |-> IndexError] }
          ELSE { [store |-> store \o SubSeq(Writes(store, rows), 1, w),
                  exc   |-> IF w < Len(Writes(store, rows)) THEN StoreError ELSE NoExc]
                 : w \in 0 .. Len(Writes(store, rows)) })

\* Where run_experiment goes after a write that raised exc (or NoExc).
AfterWrite(exc, next_pc) ==
    IF exc = NoExc \/ Catches(PersistHandlerClass, exc) THEN next_pc ELSE "raised"

\* Write detail CSV (append); a failure is caught and printed.
WriteDetail ==
    /\ pc = "detail"
    /\ \E o \in WriteOutcomes(out_detail, Len(results), results # <<>>) :
          /\ out_detail' = o.store
          /\ printed' = IF o.exc # NoExc /\ Catches(PersistHandlerClass, o.exc)
                        THEN printed \cup {"detalle"} ELSE printed
          /\ pc' = AfterWrite(o.exc, "metrics")
    /\ UNCHANGED << config, run, i, queue, task, pending, results, out_summary, summary,
                    faults_left >>

\* Summary metrics
Metrics ==
    /\ pc = "metrics"
    /\ IF MetricsRaise(results)
       THEN summary' = summary /\ pc' = "raised"
       ELSE summary' = SummaryOf(results) /\ pc' = "summary"
    /\ UNCHANGED << config, run, stores, i, queue, task, pending, results, faults_left >>

\* Append summary to CSV (a failure is caught and printed), then return summary
WriteSummary ==
    /\ pc = "summary"
    /\ \E o \in WriteOutcomes(out_summary, 1, TRUE) :
          /\ out_summary' = o.store
          /\ printed' = IF o.exc # NoExc /\ Catches(PersistHandlerClass, o.exc)
                        THEN printed \cup {"resumen"} ELSE printed
          /\ pc' = AfterWrite(o.exc, "done")
    /\ UNCHANGED << config, run, i, queue, task, pending, results, out_detail, summary,
                    faults_left >>

Next ==
    \/ StartRun
    \/ Submit
    \/ Start
    \/ \E r \in Requests :
          \/ Connect(r) \/ Timeout(r) \/ BeginTx(r) \/ Transfer(r) \/ CommitTx(r)
          \/ RollbackTx(r) \/ CloseCursor(r) \/ CloseConn(r) \/ Return(r)
          \/ Collect(r)
    \/ Shutdown
    \/ WriteDetail
    \/ Metrics
    \/ WriteSummary

Spec == Init /\ [][Next]_vars

SpecWorker == InitWorker /\ [][Next]_vars

SpecDriver == InitDriver /\ [][Next]_vars

SpecDispatch == InitDispatch /\ [][Next]_vars

\* The steps of the main thread: main's loop and run_experiment.
MainThread ==
    \/ StartRun \/ Submit \/ (\E r \in Requests : Collect(r)) \/ Shutdown
    \/ WriteDetail \/ Metrics \/ WriteSummary

\* The steps of the pool thread that executes request r.
Worker(r) ==
    /\ r \in Requests
    /\ \/ Connect(r) \/ Timeout(r) \/ BeginTx(r) \/ Transfer(r) \/ CommitTx(r)
       \/ RollbackTx(r) \/ CloseCursor(r) \/ CloseConn(r) \/ Return(r)

\* Every database call returns or raises, the main thread and every worker go
\* on when they can, and an idle pool thread takes the next queued request.
Fairness ==
    /\ WF_vars(MainThread)
    /\ WF_vars(Start)
    /\ \A r \in 1 .. MaxTotal : WF_vars(Worker(r))

SpecLive == InitLive /\ [][Next]_vars /\ Fairness

\* ------------------------------------------------------------ properties
\* worker_task of request r has returned its record.
Returned(r) == task[r].pc \in {"return", "done"}

\* The with block of run_experiment has been left.
PoolShutDown == pc \notin {"main", "pool", "raising"}

HasPrefix(s, tok) == s # None /\ s[1] = tok

\* C1: when the pool has shut down, results holds exactly one result per
\* submitted request: its length is total_ops, none is missing, none is twice.
C1_OneResultPerRequest ==
    PoolShutDown =>
        /\ Len(results) = total_ops
        /\ \A r \in Requests :
              Cardinality({k \in DOMAIN results : results[k].req = r}) = 1

\* Two requests, one failed to connect and one aborted, collected out of the
\* order of submission.
C1_Witness ==
    /\ pc = "detail"
    /\ total_ops = 2
    /\ results[1].req = 2
    /\ HasPrefix(results[1].status, "CONN_ERR: ")
    /\ HasPrefix(results[2].status, "ABORT: ")

\* Running requests that hold an open session.
OpenSessions == {r \in Running : task[r].conn = "open"}

\* C2: at most concurrency worker_task invocations have started and not yet
\* returned, hence at most concurrency sessions are open; with concurrency 1 at
\* most one transaction is in flight.
C2_InFlightBounded ==
    /\ Cardinality(Running) <= concurrency
    /\ Cardinality(OpenSessions) <= concurrency
    /\ concurrency = 1 => Cardinality(Running) <= 1

\* The limit is 1, one request holds a session and the other one waits.
C2_Witness ==
    /\ concurrency = 1
    /\ Cardinality(OpenSessions) = 1
    /\ queue # <<>>

\* C3: a session make_conn returned is closed exactly once before worker_task
\* returns, on every exit path; when make_conn fails none is closed.
C3_SessionClosedOnce ==
    \A r \in Requests :
        Returned(r) =>
            IF task[r].conn = "none" THEN task[r].closes = 0 ELSE task[r].closes = 1

\* C4: once a session is obtained, an exception of set-timeout, begin, the
\* transfer or commit rolls the transaction back and yields an ABORT status,
\* never a CONN_ERR status.
C4_FailureRollsBackAndAborts ==
    \A r \in Requests :
        (Returned(r) /\ task[r].first_fail # "none") =>
            /\ task[r].rollbacks >= 1
            /\ HasPrefix(task[r].status, "ABORT: ")

\* C5: worker_task never raises: whatever fails, it returns a record whose
\* status is set, and f.result() never raises in run_experiment.
C5_WorkerNeverRaises ==
    /\ \A r \in Requests :
          /\ task[r].pc \notin {"raise", "failed"}
          /\ Returned(r) => task[r].status # None
    /\ pc \notin {"raising", "raised"}

\* The transfer, the rollback and cur.close() failed one after the other, and
\* the record was collected.
C5_Witness ==
    /\ total_ops = 1
    /\ results = << ResultOf(1, task[1]) >>
    /\ task[1].attempt = 0
    /\ task[1].first_fail = "op"
    /\ task[1].rollbacks = 1
    /\ task[1].closes = 0
    /\ faults_left = DefaultMaxRetries + 1
    /\ HasPrefix(task[1].status, "CONN_ERR: ")

\* The text of the transient connection failure, as the status carries it.
TransientText ==
    ReplaceNewlines((CHOOSE e \in ConnErrors : e.type = "OperationalError").text)

\* C6: make_conn makes at most max_retries + 1 attempts; when every attempt
\* fails with an OperationalError it makes exactly max_retries + 1 and the last
\* failure surfaces; an attempt that succeeds is the last one.
C6_ConnectAttempts ==
    \A r \in Requests :
        LET t == task[r] IN
        /\ t.conn_calls <= max_retries + 1
        /\ t.conn # "none" => t.conn_calls = t.attempt + 1
        /\ (t.pc \notin {"new", "queued", "connect"} /\ t.conn = "none"
              /\ t.attempt = t.conn_calls)
             => /\ t.conn_calls = max_retries + 1
                /\ t.status = <<"CONN_ERR: ">> \o TransientText

\* The default three retries were used up: four attempts, then CONN_ERR.
C6_Witness ==
    \E r \in Requests :
        /\ max_retries = DefaultMaxRetries
        /\ task[r].pc = "done"
        /\ task[r].conn = "none"
        /\ task[r].attempt = task[r].conn_calls
        /\ task[r].conn_calls = DefaultMaxRetries + 1

\* C7 as stated: the requests submitted and not yet completed never exceed
\* concurrency, because submit blocks.
C7_OutstandingWithinLimit == Cardinality(Outstanding) <= concurrency

\* C7 amended: submit never blocks, so every request of the batch may be
\* outstanding at once (at most total_ops of them); those that are not
\* executing wait in the pool's queue in the order of submission, and only
\* the executing ones are bounded by concurrency.
C7_SubmitNeverBlocks ==
    /\ (pc = "pool" /\ i < total_ops) => ENABLED Submit
    /\ Cardinality(Outstanding) <= total_ops
    /\ Cardinality(Outstanding) = Len(queue) + Cardinality(Running)
    /\ \A k \in DOMAIN queue : task[queue[k]].pc = "queued"
    /\ \A k, l \in DOMAIN queue : k < l => queue[k] < queue[l]
    /\ Cardinality(Running) <= concurrency

\* With the limit 1, two requests are outstanding: one executes, one is queued.
C7_Witness ==
    /\ concurrency = 1
    /\ Cardinality(Outstanding) = 2
    /\ Cardinality(Running) = 1
    /\ Len(queue) = 1

\* C8: the summary counts every result in exactly one bucket:
\* completed + aborted = total.
C8_EveryStatusCounted ==
    summary # NoSummary => summary.completed + summary.aborted = summary.total_ops

\* C9: when every connection attempt of every request fails, every result is a
\* CONN_ERR, no statement, commit or rollback was attempted, and the summary
\* has aborted = total_ops and completed = 0.
C9_AllConnectionsFail ==
    (pc \in {"summary", "done"} /\ \A r \in Requests : task[r].conn = "none") =>
        /\ \A k \in DOMAIN results : HasPrefix(results[k].status, "CONN_ERR: ")
        /\ \A r \in Requests :
              /\ task[r].stmt_calls = 0
              /\ task[r].commits = 0
              /\ task[r].rollbacks = 0
        /\ summary.aborted = total_ops
        /\ summary.completed = 0

\* Two requests, neither got a session, and the summary is written.
C9_Witness ==
    /\ pc = "done"
    /\ total_ops = 2
    /\ \A r \in Requests : task[r].conn = "none"
    /\ summary.aborted = 2

Count(store, what) == Cardinality({k \in DOMAIN store : store[k] = what})

ZeroSummary ==
    [ total_ops |-> 0, completed |-> 0, aborted |-> 0, abort_rate_pct |-> 0,
      avg_latency_s |-> 0, p50_latency_s |-> 0 ]

\* C10: a run with total_ops = 0 does not raise, its summary has counts 0 and
\* rates and latencies 0.0, and the write of the summary appends one row (after
\* the header of an empty store) unless the write of the store failed.
C10_EmptyRun ==
    /\ [](total_ops = 0 =>
            /\ pc \notin {"raising", "raised"}
            /\ pc \in {"summary", "done"} => summary = ZeroSummary)
    /\ [][(total_ops = 0 /\ pc = "summary" /\ pc' = "done" /\ "resumen" \notin printed')
            => /\ Count(out_summary', "row") = Count(out_summary, "row") + 1
               /\ Count(out_summary', "header") = 1
               /\ out_summary'[Len(out_summary')] = "row"]_vars

\* An empty run has returned and its row follows the rows of an earlier run.
C10_Witness ==
    /\ total_ops = 0
    /\ pc = "done"
    /\ summary = ZeroSummary
    /\ out_summary = <<"header", "row", "row">>

\* C11: a failure of the write of the detail store or of the summary store
\* never makes run_experiment raise; the summary it returns is the one computed
\* from results, with one result per request whatever happened to the detail
\* store; and main stops only when every configured run has returned.
C11_PersistFailureTolerated ==
    /\ pc # "raised"
    /\ pc \in {"summary", "done"} =>
          /\ summary = SummaryOf(results)
          /\ summary.total_ops = total_ops
    /\ (~ ENABLED Next) => (pc \in {"main", "done"} /\ run = runs)

\* The second of two runs has returned its summary although both writes of the
\* run failed and nothing was ever stored.
C11_Witness ==
    /\ runs = 2
    /\ run = 2
    /\ pc = "done"
    /\ total_ops = 1
    /\ printed = {"detalle", "resumen"}
    /\ out_detail = <<>>
    /\ out_summary = <<>>
    /\ summary.total_ops = 1

\* C12: the runs execute one after another with run ids 1, 2, ... up to runs;
\* a run starts only when every worker_task of the run before has returned, its
\* results are collected and its summary is computed and returned; no request
\* is submitted outside the pool of the current run, and the summary of a run
\* is computed only when none of its requests is in flight.
C12_RunsInSequence ==
    /\ [](/\ run \in 0 .. runs
          /\ (\E r \in Requests : task[r].pc # "new") => run >= 1
          /\ pc \in {"metrics", "summary", "done"} =>
                /\ \A r \in Requests : task[r].pc = "done"
                /\ pending = {}
                /\ queue = <<>>
                /\ Len(results) = total_ops)
    /\ [][run' # run =>
            /\ run' = run + 1
            /\ \A r \in Requests : task'[r].pc = "new"
            /\ run >= 1 =>
                  /\ pc = "done"
                  /\ \A r \in Requests : task[r].pc = "done"
                  /\ Len(results) = total_ops
                  /\ summary = SummaryOf(results)]_vars

\* The request of the second run is executing; the first run has written its
\* rows to both stores.
C12_Witness ==
    /\ run = 2
    /\ total_ops = 1
    /\ task[1].pc = "commit"
    /\ out_detail = <<"header", "row">>
    /\ out_summary = <<"header", "row">>

\* The header rows a step adds to a store.
HeadersAdded(store, store2) == Count(store2, "header") - Count(store, "header")

\* C13: a write adds a header row to a store only if the store is empty at
\* that moment, and then as its first row; so a store holds at most one header
\* row, which precedes every data row, whatever the runs before did (no result,
\* a failed write) and whether the store started empty or not.
C13_HeaderOnlyWhenEmpty ==
    /\ [][/\ HeadersAdded(out_detail, out_detail') \in {0, 1}
          /\ HeadersAdded(out_detail, out_detail') = 1 =>
                (out_detail = <<>> /\ out_detail'[1] = "header")
          /\ HeadersAdded(out_summary, out_summary') \in {0, 1}
          /\ HeadersAdded(out_summary, out_summary') = 1 =>
                (out_summary = <<>> /\ out_summary'[1] = "header")]_vars
    /\ [](\A store \in {out_detail, out_summary} :
            /\ Count(store, "header") <= 1
            /\ Count(store, "header") = 1 => store[1] = "header")

\* After two runs the detail store holds one header and the rows of both runs,
\* and the summary store, which held a row and no header, got two rows and no
\* header.
C13_Witness ==
    /\ run = 2
    /\ pc = "done"
    /\ out_detail = <<"header", "row", "row">>
    /\ out_summary = <<"row", "row", "row">>

\* The distinct ids of an --accounts list.
Distinct(pool) == Cardinality(Choice(pool))

\* C14: when the account pool holds at least two distinct ids (duplicates
\* allowed), the dispatch loop never raises and every request it generates has
\* from_id # to_id, both of them ids of the pool.
C14_DistinctAccounts ==
    Distinct(account_pool) >= 2 =>
        /\ pc \notin {"raising", "raised"}
        /\ \A r \in Requests :
              task[r].pc # "new" =>
                  /\ task[r].from_id # task[r].to_id
                  /\ task[r].from_id \in Choice(account_pool)
                  /\ task[r].to_id \in Choice(account_pool)

\* From a pool with a duplicate id, two requests were generated in opposite
\* directions.
C14_Witness ==
    /\ account_pool = <<1, 1, 2>>
    /\ total_ops = 2
    /\ pc = "done"
    /\ task[1].from_id = 1 /\ task[1].to_id = 2
    /\ task[2].from_id = 2 /\ task[2].to_id = 1

\* C15: a result carries a CONN_ERR status only if make_conn failed: a request
\* whose session was established is never reported as a connection error.
C15_ConnErrOnlyWithoutSession ==
    \A r \in Requests :
        (Returned(r) /\ HasPrefix(task[r].status, "CONN_ERR: ")) =>
            task[r].conn = "none"

\* C16: no result is counted both as completed and as aborted, whatever text
\* its status carries, so completed + aborted never exceeds the number of
\* results.
C16_NoDoubleCount ==
    summary # NoSummary =>
        /\ \A k \in DOMAIN results :
              ~ (IsCompleted(results[k].status) /\ IsAborted(results[k].status))
        /\ summary.completed + summary.aborted <= Len(results)

\* The place of a call in the order connect, set timeout, begin, operate,
\* commit, rollback, release (cursor, then session).
Rank(step) ==
    CASE step = "connect"    -> 1
      [] step = "timeout"    -> 2
      [] step = "begin"      -> 3
      [] step = "op"         -> 4
      [] step = "commit"     -> 5
      [] step = "rollback"   -> 6
      [] step = "cur_close"  -> 7
      [] step = "conn_close" -> 8

Times(steps, step) == Cardinality({k \in DOMAIN steps : steps[k] = step})

\* C17: within one worker_task the calls occur in the order connect, set
\* timeout, begin, operate, commit or rollback, release, each of them but
\* connect and operate at most once; a statement is executed only on a session
\* make_conn returned, commit and rollback only after BEGIN returned, and
\* nothing follows conn.close().
C17_StepOrder ==
    \A r \in Requests :
        LET t == task[r] IN
        /\ \A a, b \in DOMAIN t.steps : a < b => Rank(t.steps[a]) <= Rank(t.steps[b])
        /\ \A step \in {"timeout", "begin", "commit", "rollback", "cur_close",
                         "conn_close"} : Times(t.steps, step) <= 1
        /\ (\E k \in DOMAIN t.steps : t.steps[k] \in {"timeout", "begin", "op"})
              => t.conn # "none"
        /\ (\E k \in DOMAIN t.steps : t.steps[k] \in {"commit", "rollback"})
              => t.begun
        /\ t.conn = "closed" => t.steps[Len(t.steps)] = "conn_close"

\* A worker_task of the simple mode connected at the second attempt, executed
\* its three statements, failed to commit, rolled back and released.
C17_Witness ==
    /\ total_ops = 1
    /\ task[1].pc = "done"
    /\ task[1].steps = << "connect", "connect", "timeout", "begin", "op", "op", "op",
                          "commit", "rollback", "cur_close", "conn_close" >>

\* The statuses the transfer itself assigns: the status reported by the
\* transfer function, 'UNKNOWN', or 'COMPLETADA' in the simple mode.
OperationStatuses == {StatusOf(row) : row \in OpRows}

\* C18: a returned result carries the status of the operation only if commit
\* returned; rollback is never called after commit returned; and if commit
\* raises, rollback is called and the result carries an ABORT status.
C18_StatusFollowsCommit ==
    \A r \in Requests :
        LET t == task[r] IN
        Returned(r) =>
            /\ t.status \in OperationStatuses => t.committed
            /\ t.committed => t.rollbacks = 0
            /\ (t.commits = 1 /\ ~ t.committed) =>
                  /\ t.rollbacks = 1
                  /\ HasPrefix(t.status, "ABORT: ")

\* C19: a request whose commit returned is never given an ABORT or a CONN_ERR
\* status, even when cur.close() or conn.close() fails afterwards.
C19_CommittedNeverRelabelled ==
    \A r \in Requests :
        (Returned(r) /\ task[r].committed) =>
            /\ ~ HasPrefix(task[r].status, "ABORT: ")
            /\ ~ HasPrefix(task[r].status, "CONN_ERR: ")

\* main has left its loop: every configured run has returned.
Finished == pc \in {"main", "done"} /\ run = runs

\* C20: every run completes: once its pool exists, every request yields its
\* result and the pool shuts down with all results collected; make_conn never
\* makes more than max_retries + 1 attempts; and the experiment finishes all
\* its runs and stays finished.
C20_Terminates ==
    /\ (pc = "pool") ~> (pc = "detail" /\ Len(results) = total_ops)
    /\ [](\A r \in Requests : task[r].conn_calls <= max_retries + 1)
    /\ <>[]Finished

\* Two runs of one request have finished; in the second run a connection
\* attempt failed and was retried.
C20_Witness ==
    /\ Finished
    /\ runs = 2
    /\ total_ops = 1
    /\ task[1].conn_calls = 2
    /\ task[1].conn = "closed"
    /\ out_summary = <<"header", "row", "row">>

====
